---- MODULE Spec2Model ----
(***************************************************************************)
(* A model of src/model.py: the attention-mechanism selector, the          *)
(* block-sparse index generator, and the GPT life cycle (construction,     *)
(* forward, generate, crop_block_size, from_pretrained, in-place           *)
(* parameter updates).                                                     *)
(***************************************************************************)
EXTENDS Integers, Sequences, FiniteSets, TLC

VARIABLES
    gen_in,     \* the arguments of one _generate_causal_sparse_indices call
    gen_out,    \* what that call returned
    env,        \* what the runtime offers: the fused kernel, the sparse library
    model,      \* the GPT object, once constructed
    result      \* the outcome of the last call made on the model

idxVars == <<gen_in, gen_out>>

gptVars == <<env, model, result>>

vars == <<gen_in, gen_out, env, model, result>>

(* ------------------------------ bounds --------------------------------- *)
MaxB == 2
MaxT == 4
MaxH == 2
MaxS == 3
MaxBlockSize == 2
\* the most (b, t, h) rows one generated index may hold: B * T * H <= MaxRows
MaxRows == 4
\* GPT life cycle: sequence capacity, layers, heads, key/value heads
MaxCap == 2
MaxLayer == 1
MaxHead == 3
MaxKv == 2
\* generate: the budget of new tokens
MaxNew == 2
\* forward: tokens in a batch (b * t <= MaxSeq); generate: the prompt; both
\* reach one past the largest capacity
MaxSeq == MaxCap + 1

MaxPrompt == MaxCap + 1

(* ------------------------- generic helpers ----------------------------- *)
Min(a, b) == IF a <= b THEN a ELSE b

Max(a, b) == IF a >= b THEN a ELSE b

Range(s) == {s[i] : i \in 1..Len(s)}

\* the n-element sequence whose every slot is v (torch.full)
Full(n, v) == [i \in 1..n |-> v]

\* ascending insertion of v into the ascending sequence s
RECURSIVE InsertSorted(_, _)
InsertSorted(s, v) ==
    IF s = <<>> THEN <<v>>
    ELSE IF v <= Head(s) THEN <<v>> \o s
    ELSE <<Head(s)>> \o InsertSorted(Tail(s), v)

\* tensor.sort(dim=-1)[0] on one row
RECURSIVE SortRow(_)
SortRow(s) == IF s = <<>> THEN <<>> ELSE InsertSorted(SortRow(Tail(s)), Head(s))

(* ------------- _generate_causal_sparse_indices (model.py) -------------- *)

\* sentinel for padding: one past the maximum block of the whole sequence
padding_block_idx(T, block_size_sparse) == ((T - 1) \div block_size_sparse) + 1

\* torch.randperm(n): every ordering of 0..n-1
randperm(n) ==
    {p \in [1..n -> 0..(n - 1)] : \A i, j \in 1..n : i # j => p[i] # p[j]}

\* a draw with replacement: n values of 0..n-1 in any order, repeats allowed
randperm_with_replacement(n) == [1..n -> 0..(n - 1)]

PermPrefixes_repl(n, k) == {SubSeq(p, 1, k) : p \in randperm_with_replacement(n)}

\* perm[:num_to_select] for every perm the generator can return
PermPrefixes(n, k) == {SubSeq(p, 1, k) : p \in randperm(n)}

\* the selection made for one (b, t, h): the indices and the recorded count
RowDraws(t_idx, S_sparse, block_size_sparse) ==
    LET current_max_attendable_block_idx == t_idx \div block_size_sparse
        num_available_blocks == current_max_attendable_block_idx + 1
    IN  IF num_available_blocks <= 0
        THEN {[selected |-> <<>>, count |-> 0]}
        ELSE IF num_available_blocks = 1
        THEN {[selected |-> <<0>>, count |-> 1]}
        ELSE LET num_to_select == Min(S_sparse, num_available_blocks)
             IN  {[selected |-> p, count |-> num_to_select] :
                     p \in PermPrefixes(num_available_blocks, num_to_select)}

\* row[:count] = selected, with the broadcast of a one-element source
SliceAssign(row, count, selected) ==
    LET n == Min(count, Len(row))
    IN  [i \in 1..Len(row) |->
            IF i <= n
            THEN (IF Len(selected) = 1 THEN selected[1] ELSE selected[i])
            ELSE row[i]]

\* the row as stored before the final sort
RowBeforeSort(T, t_idx, S_sparse, block_size_sparse, draw) ==
    SliceAssign(Full(S_sparse, padding_block_idx(T, block_size_sparse)),
                draw.count, draw.selected)

FinalSort_none(row) == row

FinalSort(row) == SortRow(row)

RowKeys(B, T, H) == (0..(B - 1)) \X (0..(T - 1)) \X (0..(H - 1))

\* every assignment of one draw to each (b, t, h) of keys
RECURSIVE AllDraws(_, _)
AllDraws(keys, in) ==
    IF keys = {} THEN {[k \in {} |-> 0]}
    ELSE LET k == CHOOSE x \in keys : TRUE
         IN  {[x \in (DOMAIN f) \cup {k} |-> IF x = k THEN d ELSE f[x]] :
                 f \in AllDraws(keys \ {k}, in),
                 d \in RowDraws(k[2], in.S, in.block_size)}

GenInputs ==
    {in \in [B : 1..MaxB, T : 0..MaxT, H : 1..MaxH, S : 0..MaxS,
              block_size : 1..MaxBlockSize] : in.B * in.T * in.H <= MaxRows}

NoOutput == [kind |-> "none"]

NoModel == [kind |-> "none"]

NoResult == [op |-> "none"]

\* the caller holds no outcome it has yet to look at
CallerIdle == result = NoResult

InitIdx ==
    /\ gen_in \in GenInputs
    /\ gen_out = NoOutput
    /\ env = [has_sdpa |-> TRUE, has_nsa |-> TRUE]
    /\ model = NoModel
    /\ result = NoResult

\* one call of _generate_causal_sparse_indices on the inputs gen_in
generate_causal_sparse_indices ==
    /\ gen_out.kind = "none"
    /\ \E draws \in AllDraws(RowKeys(gen_in.B, gen_in.T, gen_in.H), gen_in) :
          gen_out' =
            [kind |-> "done",
             selected |-> [k \in DOMAIN draws |-> draws[k].selected],
             block_indices |->
                [k \in DOMAIN draws |->
                    FinalSort(RowBeforeSort(gen_in.T, k[2], gen_in.S,
                                            gen_in.block_size, draws[k]))],
             block_counts |-> [k \in DOMAIN draws |-> draws[k].count]]
    /\ UNCHANGED <<gen_in, gptVars>>

NextIdx == generate_causal_sparse_indices

SpecIdx == InitIdx /\ [][NextIdx]_vars

(* ------------------------- GPTConfig (model.py) ------------------------ *)

\* config has no attribute mqa_kv_n_head (GPTConfig declares none)
NoAttr == -1

EmbdWidths == {4}

VocabSizes == {2}

GPTConfig ==
    [block_size : 1..MaxCap, vocab_size : VocabSizes, n_layer : 0..MaxLayer,
     n_head : 1..MaxHead, n_embd : EmbdWidths,
     use_rope : BOOLEAN, use_flash_attn : BOOLEAN, use_sparse_attn : BOOLEAN,
     use_mqa : BOOLEAN, mqa_kv_n_head : {NoAttr} \cup (1..MaxKv)]

Environments == [has_sdpa : BOOLEAN, has_nsa : BOOLEAN]

(* ------------------ CausalSelfAttention.__init__ ----------------------- *)

\* self.use_flash_attn: the flag, and the runtime has the fused primitive
ResolveFlash(config, e) == config.use_flash_attn /\ e.has_sdpa

\* getattr(config, 'mqa_kv_n_head', 1)
KvHeads(config) == IF config.mqa_kv_n_head = NoAttr THEN 1 ELSE config.mqa_kv_n_head

\* the resolved selector, fused taking precedence over sparse
ActiveMechanism_flash_first(use_sparse_attn, use_flash_attn) ==
    IF use_flash_attn THEN "flash"
    ELSE IF use_sparse_attn THEN "parallel_nsa_fla_module"
    ELSE "standard"

\* self._active_attn_mechanism as __init__ leaves it
ActiveMechanism(use_sparse_attn, use_flash_attn) ==
    IF use_sparse_attn THEN "parallel_nsa_fla_module"
    ELSE IF use_flash_attn THEN "flash"
    ELSE "standard"

\* torch.tril(torch.ones(n, n)): row i holds ones in its first i columns
\* and zeros after them; a mask is kept as the number of leading ones of
\* each row
tril(n) == [i \in 1..n |-> i]

\* the attention block __init__ builds; fields a path does not create hold
\* NoAttr (widths, head counts) or FALSE (buffers)
AttnObject(config, e) ==
    LET flash == ResolveFlash(config, e)
        sparse == config.use_sparse_attn
        head_dim == config.n_embd \div config.n_head
        kv == IF config.use_mqa THEN KvHeads(config) ELSE config.n_head
        active == ActiveMechanism(sparse, flash)
    IN  [active |-> active,
         use_rope |-> config.use_rope,
         use_flash_attn |-> flash,
         use_sparse_attn |-> sparse,
         use_mqa |-> config.use_mqa,
         n_head |-> config.n_head,
         head_dim |-> head_dim,
         mqa_kv_n_head |-> IF sparse THEN NoAttr ELSE kv,
         c_attn_out |->
            IF sparse THEN NoAttr
            ELSE IF config.use_mqa THEN config.n_embd + 2 * kv * head_dim
            ELSE 3 * config.n_embd,
         has_inv_freq |-> (~sparse) /\ config.use_rope,
         rotary |-> IF sparse THEN "IdentityRotary"
                    ELSE IF config.use_rope THEN "rope" ELSE "none",
         has_bias |-> (~sparse) /\ active = "standard",
         bias_side |-> IF (~sparse) /\ active = "standard"
                       THEN config.block_size ELSE NoAttr,
         bias_rows |-> IF (~sparse) /\ active = "standard"
                       THEN tril(config.block_size) ELSE <<>>]

\* the construction with the sparse module looked up at the first forward
\* call instead
AttnInitStatus_deferred(config, e) ==
    IF config.n_embd % config.n_head # 0 THEN "AssertionError"
    ELSE IF config.use_sparse_attn THEN "ok"
    ELSE IF config.use_mqa /\ config.n_head % KvHeads(config) # 0
    THEN "AssertionError"
    ELSE "ok"

\* how CausalSelfAttention(config) ends: "ok" or the exception it raises
AttnInitStatus(config, e) ==
    IF config.n_embd % config.n_head # 0 THEN "AssertionError"
    ELSE IF config.use_sparse_attn
    THEN (IF e.has_nsa THEN "ok" ELSE "NameError")
    ELSE IF config.use_mqa /\ config.n_head % KvHeads(config) # 0
    THEN "AssertionError"
    ELSE "ok"

(* ----------------------------- GPT.__init__ ---------------------------- *)

\* the storages the two weights name
Storages == {"lm_head.weight", "wte.weight"}

WeightValues == {"v0", "v1"}

\* transformer.wte.weight left on the embedding's own storage
TieWeights_untied == "wte.weight"

\* self.transformer.wte.weight = self.lm_head.weight
TieWeights == "lm_head.weight"

\* Block(config) for _ in range(config.n_layer): the first failure ends it
GPTInitStatus(config, e) ==
    IF config.n_layer = 0 THEN "ok" ELSE AttnInitStatus(config, e)

GPTObject(config, e) ==
    [kind |-> "GPT",
     config |-> config,
     wte_weight |-> TieWeights,
     lm_head_weight |-> "lm_head.weight",
     wpe_rows |-> config.block_size,
     h |-> [i \in 1..config.n_layer |-> AttnObject(config, e)],
     store |-> [s \in Storages |-> "v0"]]

\* model = GPT(config)
GPT_init ==
    /\ CallerIdle
    /\ model.kind = "none"
    /\ \E config \in GPTConfig :
          LET status == GPTInitStatus(config, env)
          IN  /\ model' = IF status = "ok" THEN GPTObject(config, env) ELSE model
              /\ result' = [op |-> "init", status |-> status, config |-> config]
    /\ UNCHANGED <<idxVars, env>>

(* ------------------------------ GPT.forward ---------------------------- *)

\* the label cross_entropy skips (ignore_index)
IgnoreIndex == -1

\* the guard written with a strict comparison
LengthOk_strict(t, block_size) == t < block_size

\* assert t <= self.config.block_size
LengthOk(t, block_size) == t <= block_size

\* the flattened positions that enter the loss
LossPositions(targets) == {i \in 1..Len(targets) : targets[i] # IgnoreIndex}

\* the positions the vocabulary projection is applied to, when all are kept
LogitPositions_all(t, has_targets) == t

\* lm_head(x) on all t positions with targets, on x[:, [-1], :] without
LogitPositions(t, has_targets) == IF has_targets THEN t ELSE 1

(* ---------------------- CausalSelfAttention.forward -------------------- *)

\* the first column of qkv = c_attn(x) that query head h (0-based) takes its
\* key from: k_single_head = qkv[:, :, n_embd : n_embd + head_dim] expanded
\* to every head with use_mqa, else head h of the second n_embd-wide split
KeyColumn(a, n_embd, h) ==
    IF a.use_mqa THEN n_embd ELSE n_embd + h * a.head_dim

\* the first column query head h takes its value from:
\* v_single_head = qkv[:, :, -head_dim:] with use_mqa, else head h of the
\* third split
ValueColumn(a, n_embd, h) ==
    IF a.use_mqa THEN a.c_attn_out - a.head_dim ELSE 2 * n_embd + h * a.head_dim

\* one call of the block a: the path taken, the calls it makes to
\* _generate_causal_sparse_indices, whether apply_rotary_pos_emb acts on
\* q and k, and the columns each query head reads its key and value from
AttnForward(a, n_embd) ==
    IF a.use_sparse_attn
    THEN [path |-> "fla_nsa_module", index_generator_calls |-> 0,
          rotary_applied |-> FALSE, k_lo |-> <<>>, v_lo |-> <<>>]
    ELSE [path |-> IF a.use_flash_attn THEN "scaled_dot_product_attention"
                   ELSE "masked_softmax",
          index_generator_calls |-> 0,
          rotary_applied |-> a.use_rope,
          k_lo |-> [h \in 1..a.n_head |-> KeyColumn(a, n_embd, h - 1)],
          v_lo |-> [h \in 1..a.n_head |-> ValueColumn(a, n_embd, h - 1)]]

\* for block in self.transformer.h: x = block(x)
LayersForward(m) == [i \in 1..Len(m.h) |-> AttnForward(m.h[i], m.config.n_embd)]

\* tok_emb + pos_emb unless config.use_rope
PosEmbAdded(config) == ~config.use_rope

\* logits, loss = model(idx, targets) for idx of shape (b, t)
ForwardOutcome(m, b, t, has_targets, targets) ==
    LET base0 == [op |-> "forward", b |-> b, t |-> t, has_targets |-> has_targets,
                 targets |-> targets, cap |-> m.config.block_size,
                 vocab_size |-> m.config.vocab_size]
        base == IF LengthOk(t, m.config.block_size)
                THEN base0 @@ [pos_emb_added |-> PosEmbAdded(m.config),
                               layers |-> LayersForward(m)]
                ELSE base0
    IN  IF ~LengthOk(t, m.config.block_size)
        THEN base @@ [status |-> "length_exceeded", evaluated |-> FALSE]
        ELSE IF has_targets
        THEN base @@ [status |-> "ok", evaluated |-> TRUE,
                      logits_shape |-> <<b, LogitPositions(t, TRUE), m.config.vocab_size>>,
                      loss |-> "scalar", loss_positions |-> LossPositions(targets)]
        ELSE IF t = 0
        THEN base @@ [status |-> "IndexError", evaluated |-> TRUE]
        ELSE base @@ [status |-> "ok", evaluated |-> TRUE,
                      logits_shape |-> <<b, LogitPositions(t, FALSE), m.config.vocab_size>>,
                      loss |-> "None", loss_positions |-> {}]

\* the labels a target tensor holds: the ignored one and a class id
Labels(m) == {IgnoreIndex, 0}

BatchSizes == {1, 2}

ForwardShapes == {bt \in BatchSizes \X (0..MaxSeq) : bt[1] * bt[2] <= MaxSeq}

GPT_forward ==
    /\ CallerIdle
    /\ model.kind = "GPT"
    /\ \E bt \in ForwardShapes :
          \/ result' = ForwardOutcome(model, bt[1], bt[2], FALSE, <<>>)
          \/ \E targets \in [1..(bt[1] * bt[2]) -> Labels(model)] :
                result' = ForwardOutcome(model, bt[1], bt[2], TRUE, targets)
    /\ UNCHANGED <<idxVars, env, model>>

(* ----------------------------- GPT.generate ---------------------------- *)

\* seq[-k:] in Python: the last k elements, and the whole of seq when k = 0
PySliceTail(seq, k) ==
    LET n == Len(seq)
        start == IF k = 0 THEN 0 ELSE Max(n - k, 0)
    IN  SubSeq(seq, start + 1, n)

\* the context taken without cropping
Context_uncropped(idx, block_size) == idx

\* idx_cond = idx if idx.size(1) <= block_size else idx[:, -block_size:]
Context(idx, block_size) ==
    IF Len(idx) <= block_size THEN idx ELSE PySliceTail(idx, block_size)

\* every way the loop can run from idx with `left` steps to go; ctx collects
\* the length of each context handed to forward
RECURSIVE GenerateRuns(_, _, _, _)
GenerateRuns(m, idx, left, ctx) ==
    IF left = 0 THEN {[status |-> "ok", out |-> idx, ctx_lens |-> ctx]}
    ELSE LET idx_cond == Context(idx, m.config.block_size)
             fwd == ForwardOutcome(m, 1, Len(idx_cond), FALSE, <<>>)
             ctx2 == Append(ctx, Len(idx_cond))
         IN  IF fwd.status # "ok"
             THEN {[status |-> fwd.status, out |-> <<>>, ctx_lens |-> ctx2]}
             ELSE UNION {GenerateRuns(m, Append(idx, idx_next), left - 1, ctx2) :
                            idx_next \in 0..(fwd.logits_shape[3] - 1)}

\* a prompt of p token ids
Prompt(m, p) == [i \in 1..p |-> (i - 1) % m.config.vocab_size]

\* the sampled ids are enumerated, so generate is followed on the
\* vocabularies of VocabSizes only
GPT_generate ==
    /\ CallerIdle
    /\ model.kind = "GPT"
    /\ model.config.vocab_size \in VocabSizes
    /\ \E p \in 0..MaxPrompt, max_new_tokens \in 0..MaxNew :
          \E run \in GenerateRuns(model, Prompt(model, p), max_new_tokens, <<>>) :
             result' = [op |-> "generate", prompt |-> Prompt(model, p),
                        max_new_tokens |-> max_new_tokens,
                        cap |-> model.config.block_size,
                        vocab_size |-> model.config.vocab_size,
                        status |-> run.status, out |-> run.out,
                        ctx_lens |-> run.ctx_lens]
    /\ UNCHANGED <<idxVars, env, model>>

(* -------------------------- GPT.crop_block_size ------------------------ *)

\* bias[:, :, :block_size, :block_size]: the leading rows, and of each the
\* leading columns
CropMask(rows, block_size) ==
    [i \in 1..Min(block_size, Len(rows)) |-> Min(rows[i], block_size)]

\* the crop with the mask buffers of the blocks left as they are
Cropped_masks_kept(m, block_size) ==
    [m EXCEPT !.config.block_size = block_size,
              !.wpe_rows = Min(block_size, m.wpe_rows)]

\* the model after crop_block_size(block_size), its assertion passed
Cropped(m, block_size) ==
    [m EXCEPT !.config.block_size = block_size,
              !.wpe_rows = Min(block_size, m.wpe_rows),
              !.h = [i \in 1..Len(m.h) |->
                        IF m.h[i].has_bias
                        THEN [m.h[i] EXCEPT !.bias_side = Min(block_size, m.h[i].bias_side),
                                            !.bias_rows = CropMask(m.h[i].bias_rows, block_size)]
                        ELSE m.h[i]]]

crop_block_size ==
    /\ CallerIdle
    /\ model.kind = "GPT"
    /\ \E block_size \in 0..MaxCap :
          LET ok == block_size <= model.config.block_size
          IN  /\ model' = IF ok THEN Cropped(model, block_size) ELSE model
              /\ result' = [op |-> "crop", block_size |-> block_size,
                            cap |-> model.config.block_size,
                            status |-> IF ok THEN "ok" ELSE "AssertionError"]
    /\ UNCHANGED <<idxVars, env>>

(* ----------------------- in-place parameter update --------------------- *)

ParamStorage(m, name) == IF name = "wte" THEN m.wte_weight ELSE m.lm_head_weight

\* p.data is overwritten in place (an optimizer step, a copy_): the write
\* goes to the storage the parameter names
update_param ==
    /\ CallerIdle
    /\ model.kind = "GPT"
    /\ \E name \in {"wte", "lm_head"}, v \in WeightValues :
          /\ model' = [model EXCEPT !.store[ParamStorage(model, name)] = v]
          /\ result' = [op |-> "update", via |-> name, value |-> v, status |-> "ok"]
    /\ UNCHANGED <<idxVars, env>>

(* --------------------------- GPT.from_pretrained ----------------------- *)

ModelTypes == {"gpt2", "gpt2-medium", "gpt2-large", "gpt2-xl"}

\* GPTConfig(**config_args): the fields from_pretrained sets, the rest at
\* the dataclass defaults (every feature toggle False)
PretrainedConfig(model_type) ==
    LET dims == CASE model_type = "gpt2" -> [n_layer |-> 12, n_head |-> 12, n_embd |-> 768]
                  [] model_type = "gpt2-medium" -> [n_layer |-> 24, n_head |-> 16, n_embd |-> 1024]
                  [] model_type = "gpt2-large" -> [n_layer |-> 36, n_head |-> 20, n_embd |-> 1280]
                  [] model_type = "gpt2-xl" -> [n_layer |-> 48, n_head |-> 25, n_embd |-> 1600]
    IN  [block_size |-> 1024, vocab_size |-> 50257, n_layer |-> dims.n_layer,
         n_head |-> dims.n_head, n_embd |-> dims.n_embd, bias |-> TRUE,
         use_layer_norm |-> FALSE, use_rope |-> FALSE, use_flash_attn |-> FALSE,
         use_sparse_attn |-> FALSE, use_mqa |-> FALSE, mqa_kv_n_head |-> NoAttr]

\* a state_dict key: <<layer, name>>, layer -1 for the entries outside
\* transformer.h
TopKey(name) == <<-1, name>>

LinearNames(prefix_w, prefix_b, bias) == IF bias THEN {prefix_w, prefix_b} ELSE {prefix_w}

\* the names one Block contributes to model.state_dict()
BlockKeyNames(config, attn) ==
    (IF config.use_layer_norm
     THEN LinearNames("ln_1.weight", "ln_1.bias", config.bias)
          \cup LinearNames("ln_2.weight", "ln_2.bias", config.bias)
     ELSE {})
    \cup (IF attn.use_sparse_attn THEN {"attn.fla_nsa_module"}
          ELSE LinearNames("attn.c_attn.weight", "attn.c_attn.bias", config.bias)
               \cup LinearNames("attn.c_proj.weight", "attn.c_proj.bias", config.bias))
    \cup (IF attn.has_inv_freq THEN {"attn.inv_freq"} ELSE {})
    \cup (IF attn.has_bias THEN {"attn.bias"} ELSE {})
    \cup LinearNames("mlp.c_fc.weight", "mlp.c_fc.bias", config.bias)
    \cup LinearNames("mlp.c_proj.weight", "mlp.c_proj.bias", config.bias)

\* model.state_dict().keys()
StateDictKeys(m) ==
    {TopKey("transformer.wte.weight"), TopKey("transformer.wpe.weight"),
     TopKey("lm_head.weight")}
    \cup {TopKey(n) : n \in LinearNames("transformer.ln_f.weight",
                                        "transformer.ln_f.bias", m.config.bias)}
    \cup UNION {{<<i - 1, n>> : n \in BlockKeyNames(m.config, m.h[i])} : i \in 1..Len(m.h)}

\* the names of one layer of the GPT2LMHeadModel checkpoint, in its order
HfBlockNames ==
    <<"ln_1.weight", "ln_1.bias", "attn.bias", "attn.masked_bias",
      "attn.c_attn.weight", "attn.c_attn.bias", "attn.c_proj.weight",
      "attn.c_proj.bias", "ln_2.weight", "ln_2.bias", "mlp.c_fc.weight",
      "mlp.c_fc.bias", "mlp.c_proj.weight", "mlp.c_proj.bias">>

\* sd_hf.keys() of the checkpoint model_type names
HfStateDictKeys(model_type) ==
    LET L == PretrainedConfig(model_type).n_layer
        nb == Len(HfBlockNames)
    IN  <<TopKey("transformer.wte.weight"), TopKey("transformer.wpe.weight")>>
        \o [j \in 1..(L * nb) |-> <<(j - 1) \div nb, HfBlockNames[((j - 1) % nb) + 1]>>]
        \o <<TopKey("transformer.ln_f.weight"), TopKey("transformer.ln_f.bias"),
             TopKey("lm_head.weight")>>

\* [k for k in keys if not k.endswith(suffix)] on a sequence of keys
DropSuffix(keys, suffix) == SelectSeq(keys, LAMBDA k : k[2] # suffix)

transposed ==
    {"attn.c_attn.weight", "attn.c_proj.weight", "mlp.c_fc.weight", "mlp.c_proj.weight"}

\* the shape of tensor `name` in a model of this repository
OwnShape(config, name) ==
    LET n == config.n_embd
    IN  CASE name \in {"transformer.wte.weight", "lm_head.weight"} -> <<config.vocab_size, n>>
          [] name = "transformer.wpe.weight" -> <<config.block_size, n>>
          [] name = "attn.c_attn.weight" -> <<3 * n, n>>
          [] name = "attn.c_attn.bias" -> <<3 * n>>
          [] name = "attn.c_proj.weight" -> <<n, n>>
          [] name = "mlp.c_fc.weight" -> <<4 * n, n>>
          [] name = "mlp.c_fc.bias" -> <<4 * n>>
          [] name = "mlp.c_proj.weight" -> <<n, 4 * n>>
          [] OTHER -> <<n>>

\* the shape of tensor `name` in the checkpoint (Conv1D weights are stored
\* input-major)
HfShape(config, name) ==
    LET own == OwnShape(config, name)
    IN  IF name \in transposed THEN <<own[2], own[1]>> ELSE own

Reversed(shape) == [i \in 1..Len(shape) |-> shape[Len(shape) + 1 - i]]

\* what model_hf.state_dict() can hold: the names of the GPT2LMHeadModel
\* class ("gpt2") or the names of this repository's model ("own"), intact
\* or with one entry (the first or the last) under another name or of
\* another shape
Checkpoints ==
    [layout : {"gpt2", "own"}, fault : {"none", "renamed", "misshaped"},
     at : {"first", "last"}]

\* sd_hf.keys() of the checkpoint ck for model_type, own_keys being the keys
\* of the model built for it
CheckpointKeys(model_type, ck, own_keys) ==
    LET hf == HfStateDictKeys(model_type)
        layout == IF ck.layout = "gpt2" THEN hf
                  ELSE SelectSeq(hf, LAMBDA k : k \in own_keys \/ k[2] = "attn.masked_bias")
        pos == IF ck.at = "first" THEN 1 ELSE Len(layout)
    IN  IF ck.fault = "renamed"
        THEN [layout EXCEPT ![pos] = <<layout[pos][1], "renamed.weight">>]
        ELSE layout

\* the key whose tensor has another shape in the checkpoint ck
Misshaped(ck, keys_hf) ==
    IF ck.fault = "misshaped"
    THEN {keys_hf[IF ck.at = "first" THEN 1 ELSE Len(keys_hf)]}
    ELSE {}

\* sd_hf[k].shape
CheckpointShape(config, misshaped, k) ==
    LET shape == HfShape(config, k[2])
    IN  IF k \in misshaped THEN [shape EXCEPT ![1] = @ + 1] ELSE shape

\* the shape assertion of the loop on key k holds
ShapeMatches(config, misshaped, k) ==
    IF k[2] \in transposed
    THEN Reversed(CheckpointShape(config, misshaped, k)) = OwnShape(config, k[2])
    ELSE CheckpointShape(config, misshaped, k) = OwnShape(config, k[2])

\* what the loop body does with key k: raise, or copy
CopyStep(config, own_keys, misshaped, k) ==
    IF k \notin own_keys THEN "KeyError"
    ELSE IF ~ShapeMatches(config, misshaped, k) THEN "AssertionError"
    ELSE "ok"

\* the copy loop over sd_keys_hf: it stops at the first key that raises,
\* the keys before it copied
CopyLoop(config, own_keys, misshaped, keys_hf) ==
    LET bad == {i \in 1..Len(keys_hf) :
                   CopyStep(config, own_keys, misshaped, keys_hf[i]) # "ok"}
    IN  IF bad = {} THEN [status |-> "ok", copied |-> Range(keys_hf)]
        ELSE LET first == CHOOSE i \in bad : \A j \in bad : i <= j
             IN  [status |-> CopyStep(config, own_keys, misshaped, keys_hf[first]),
                  copied |-> {keys_hf[i] : i \in 1..(first - 1)}]

\* assert len(sd_keys_hf) == len(sd_keys)
KeysAgree(sd_keys_hf, sd_keys) == Len(sd_keys_hf) = Cardinality(sd_keys)

\* GPT.from_pretrained(model_type) on the checkpoint ck: the status, the
\* keys copied, and how the checkpoint compares with the model built
PretrainedRun(model_type, ck) ==
    LET config == PretrainedConfig(model_type)
        e == [has_sdpa |-> TRUE, has_nsa |-> TRUE]
        m == GPTObject(config, e)
        sd_keys == {k \in StateDictKeys(m) : k[2] # "attn.bias"}
        keys_hf == CheckpointKeys(model_type, ck, StateDictKeys(m))
        sd_keys_hf == DropSuffix(DropSuffix(keys_hf, "attn.masked_bias"), "attn.bias")
        misshaped == Misshaped(ck, keys_hf)
        cmp == [n_own |-> Cardinality(sd_keys), n_hf |-> Len(sd_keys_hf),
                same_names |-> (Range(sd_keys_hf) = sd_keys),
                same_shapes |-> \A k \in Range(sd_keys_hf) \cap sd_keys :
                                   ShapeMatches(config, misshaped, k)]
    IN  IF GPTInitStatus(config, e) # "ok"
        THEN [status |-> GPTInitStatus(config, e), copied |-> {}] @@ cmp
        ELSE IF ~KeysAgree(sd_keys_hf, sd_keys)
        THEN [status |-> "AssertionError", copied |-> {}] @@ cmp
        ELSE CopyLoop(config, StateDictKeys(m), misshaped, sd_keys_hf) @@ cmp

\* each run, computed once
PretrainedRuns ==
    [model_type \in ModelTypes, ck \in Checkpoints |-> PretrainedRun(model_type, ck)]

\* the model from_pretrained returns: a fresh GPT whose tensors were
\* overwritten in place
ImportedModel(model_type) ==
    LET m == GPTObject(PretrainedConfig(model_type), [has_sdpa |-> TRUE, has_nsa |-> TRUE])
    IN  [m EXCEPT !.store = [s \in Storages |->
                                IF s = m.lm_head_weight \/ s = m.wte_weight
                                THEN "v1" ELSE m.store[s]]]

\* model = GPT.from_pretrained(model_type)
from_pretrained ==
    /\ CallerIdle
    /\ model.kind = "none"
    /\ \E model_type \in ModelTypes, ck \in Checkpoints :
          LET run == PretrainedRuns[model_type, ck]
          IN  /\ model' = IF run.status = "ok" THEN ImportedModel(model_type) ELSE model
              /\ result' = [op |-> "from_pretrained", model_type |-> model_type,
                            checkpoint |-> ck,
                            status |-> run.status, n_copied |-> Cardinality(run.copied),
                            n_own |-> run.n_own, n_hf |-> run.n_hf,
                            same_names |-> run.same_names,
                            same_shapes |-> run.same_shapes]
    /\ UNCHANGED <<idxVars, env>>

(* ------------------------------ the program ---------------------------- *)

\* the caller has looked at the outcome of its last call and goes on
call_returned ==
    /\ ~CallerIdle
    /\ result' = NoResult
    /\ UNCHANGED <<idxVars, env, model>>

Init ==
    /\ gen_in = [B |-> 1, T |-> 0, H |-> 1, S |-> 0, block_size |-> 1]
    /\ gen_out = NoOutput
    /\ env \in Environments
    /\ model = NoModel
    /\ result = NoResult

Next ==
    \/ GPT_init
    \/ GPT_forward
    \/ GPT_generate
    \/ crop_block_size
    \/ update_param
    \/ from_pretrained
    \/ call_returned

Spec == Init /\ [][Next]_vars

(* ===================== claims on the index generator =================== *)
GenDone == gen_out.kind = "done"

GenRows == DOMAIN gen_out.block_indices

\* the blocks available to query position t
Available(t) == (t \div gen_in.block_size) + 1

\* the slots of row k a consumer reads as real selections
NonPaddingSlots(k) ==
    {i \in 1..gen_in.S :
        gen_out.block_indices[k][i] # padding_block_idx(gen_in.T, gen_in.block_size)}

IsAscending(row) == \A i \in 1..(Len(row) - 1) : row[i] <= row[i + 1]

\* C2: every non-padding entry of row (b, t, h) is a block index in
\* [0, t // block_size], and the non-padding entries of one row are
\* pairwise distinct.
C2_CausalDistinct ==
    GenDone =>
        \A k \in GenRows :
            /\ \A i \in NonPaddingSlots(k) :
                   gen_out.block_indices[k][i] \in 0..(k[2] \div gen_in.block_size)
            /\ \A i, j \in NonPaddingSlots(k) :
                   i # j => gen_out.block_indices[k][i] # gen_out.block_indices[k][j]

\* a row that holds a proper random subset of at least two of its blocks
C2_Witness ==
    /\ GenDone
    /\ \E k \in GenRows :
          /\ Cardinality(NonPaddingSlots(k)) >= 2
          /\ Cardinality(NonPaddingSlots(k)) < Available(k[2])
          /\ Available(k[2]) < Available(gen_in.T - 1)

\* C3: the recorded count is at most min(S, available) and equals the number
\* of non-padding slots of the row; with one block available the count is 1
\* and the selected index is 0; with two or more it is min(S, available).
C3_CountClaim ==
    GenDone =>
        \A k \in GenRows :
            /\ gen_out.block_counts[k] <= Min(gen_in.S, Available(k[2]))
            /\ gen_out.block_counts[k] = Cardinality(NonPaddingSlots(k))
            /\ Available(k[2]) = 1 =>
                   /\ gen_out.block_counts[k] = 1
                   /\ gen_out.selected[k] = <<0>>
            /\ Available(k[2]) >= 2 =>
                   gen_out.block_counts[k] = Min(gen_in.S, Available(k[2]))

\* the slots of row k that lie among its first `count`
FirstCount(k) == 1..Min(gen_out.block_counts[k], gen_in.S)

RowLayout(k, sentinel) ==
    LET row == gen_out.block_indices[k]
    IN  /\ IsAscending(row)
        /\ \A i \in FirstCount(k) : row[i] \in Range(gen_out.selected[k])
        /\ gen_out.block_counts[k] <= gen_in.S =>
               Range(gen_out.selected[k]) = {row[i] : i \in FirstCount(k)}
        /\ \A i \in (1..gen_in.S) \ FirstCount(k) : row[i] = sentinel

Constructed == model.kind = "GPT"

\* the selector the flags and the runtime call for: sparse, else fused when
\* requested and available, else dense
ExpectedMechanism(config, e) ==
    IF config.use_sparse_attn THEN "parallel_nsa_fla_module"
    ELSE IF config.use_flash_attn /\ e.has_sdpa THEN "flash"
    ELSE "standard"

\* the construction checks other than the fused request pass
HeadsValid(config) ==
    /\ config.n_embd % config.n_head = 0
    /\ config.use_mqa => config.n_head % KvHeads(config) = 0

\* C1: every attention block's resolved mechanism is sparse when
\* use_sparse_attn is set, fused exactly when sparse is not set and
\* use_flash_attn is set and the primitive exists, dense otherwise, whatever
\* use_mqa and use_rope are, in every state after construction; a fused
\* request without the primitive does not fail construction.
C1_Precedence ==
    /\ Constructed =>
          \A i \in 1..Len(model.h) :
              model.h[i].active = ExpectedMechanism(model.config, env)
    /\ ( /\ result.op = "init"
         /\ result.config.use_flash_attn
         /\ ~env.has_sdpa
         /\ ~result.config.use_sparse_attn
         /\ HeadsValid(result.config) ) => result.status = "ok"

\* a fused request the runtime cannot serve, with use_mqa set, resolved to
\* dense and still dense after a crop and a forward call
C1_Witness ==
    /\ Constructed
    /\ Len(model.h) >= 1
    /\ model.config.use_flash_attn /\ model.config.use_mqa /\ ~env.has_sdpa
    /\ model.h[1].active = "standard"
    /\ model.config.block_size = 0
    /\ result.op = "forward"

IsForward == result.op = "forward"

\* the guard: the length error exactly when t exceeds the capacity, raised
\* before anything is evaluated
ForwardGuard ==
    IsForward =>
        /\ (result.status = "length_exceeded") <=> (result.t > result.cap)
        /\ result.status = "length_exceeded" => ~result.evaluated

\* a forward call leaves the model as it was
ForwardKeepsModel == [][result'.op = "forward" /\ result.op = "none" => model' = model]_vars

WithTargetsReturn ==
    IsForward /\ result.has_targets /\ result.t <= result.cap =>
        /\ result.status = "ok"
        /\ result.logits_shape = <<result.b, result.t, result.vocab_size>>
        /\ result.loss = "scalar"
        /\ result.loss_positions =
              {i \in 1..Len(result.targets) : result.targets[i] # -1}

\* what forward returns without targets: logits on the last position, no loss
NoTargetsReturn ==
    /\ result.status = "ok"
    /\ result.logits_shape = <<result.b, 1, result.vocab_size>>
    /\ result.loss = "None"

IsGenerate == result.op = "generate"

\* what generate returns: n steps, the prompt kept, n new ids of the
\* vocabulary, each context the last min(length, capacity) tokens
GenerateReturn ==
    LET p == Len(result.prompt)
        n == result.max_new_tokens
    IN  /\ result.status = "ok"
        /\ result.status # "length_exceeded"
        /\ Len(result.ctx_lens) = n
        /\ Len(result.out) = p + n
        /\ SubSeq(result.out, 1, p) = result.prompt
        /\ \A i \in (p + 1)..(p + n) : result.out[i] \in 0..(result.vocab_size - 1)
        /\ \A i \in 1..n : result.ctx_lens[i] = Min(p + i - 1, result.cap)

C8_WeightTying ==
    Constructed =>
        /\ model.wte_weight = model.lm_head_weight
        /\ result.op = "update" =>
              /\ model.store[model.wte_weight] = result.value
              /\ model.store[model.lm_head_weight] = result.value

\* a write through the embedding, on a cropped model, read back
C8_Witness ==
    /\ Constructed
    /\ model.config.block_size = 0
    /\ result.op = "update"
    /\ result.via = "wte"
    /\ result.value = "v1"
    /\ model.store[model.lm_head_weight] = "v1"

\* C9: construction fails whenever n_embd is not divisible by n_head, for
\* every layer count and attention path, so a constructed model has
\* n_embd % n_head = 0.
C9_WidthDivisible ==
    /\ result.op = "init" /\ result.config.n_embd % result.config.n_head # 0 =>
          result.status # "ok"
    /\ Constructed => model.config.n_embd % model.config.n_head = 0

\* C10: construction fails whenever use_mqa is set and n_head is not
\* divisible by the key/value-head count, whatever the other flags, so a
\* constructed model with use_mqa has n_head % kv_heads = 0.
C10_KvDivisible ==
    /\ ( /\ result.op = "init"
         /\ result.config.use_mqa
         /\ result.config.n_head % KvHeads(result.config) # 0 ) => result.status # "ok"
    /\ Constructed /\ model.config.use_mqa =>
          model.config.n_head % KvHeads(model.config) = 0

(* ========================= claims on the import ======================== *)
IsImport == result.op = "from_pretrained"

\* the checkpoint the GPT2LMHeadModel class holds for a known identifier
IntactGpt2(ck) == ck.layout = "gpt2" /\ ck.fault = "none"

\* C11: for each of the four pretrained identifiers, the model built by
\* from_pretrained has the same parameter names as the checkpoint (mask
\* buffers aside), the import passes its name check and returns a model
\* whose tensors have the checkpoint's shapes, the four transposed classes
\* after transposition.
C11_ImportReturns ==
    IsImport /\ IntactGpt2(result.checkpoint) =>
        /\ result.same_names
        /\ result.status = "ok"
        /\ result.same_shapes
        /\ result.n_copied = result.n_hf
        /\ model.kind = "GPT"

\* C12: an import whose two name sets differ (equal sizes included) or with
\* a tensor of another shape fails, and fails before any tensor has been
\* copied into the model.
C12_NoPartialLoad ==
    IsImport /\ (~result.same_names \/ ~result.same_shapes) =>
        /\ result.status # "ok"
        /\ result.n_copied = 0

(* ================== claims on the missing dependency =================== *)
IsInit == result.op = "init"

\* C13: without the sparse-attention library the module still loads, every
\* configuration with use_sparse_attn false (and head counts that divide)
\* constructs and its forward calls return; only a construction that builds
\* an attention block with use_sparse_attn true fails for the missing
\* library, and it fails at construction: no constructed model holds a
\* sparse block whose failure would be left to forward.
C13_MissingDependency ==
    ~env.has_nsa =>
        /\ IsInit /\ ~result.config.use_sparse_attn /\ HeadsValid(result.config) =>
              result.status = "ok" /\ Constructed
        /\ IsInit /\ result.config.use_sparse_attn /\ result.config.n_layer >= 1 =>
              result.status # "ok" /\ ~Constructed
        /\ IsInit /\ result.status = "NameError" =>
              result.config.use_sparse_attn /\ result.config.n_layer >= 1
        /\ Constructed => \A i \in 1..Len(model.h) : ~model.h[i].use_sparse_attn
        /\ ( /\ IsForward
             /\ result.t <= result.cap
             /\ result.has_targets \/ result.t >= 1 ) => result.status = "ok"

\* the library is missing and a sparse block's construction ends in the
\* unresolved name
C13_Witness ==
    /\ ~env.has_nsa
    /\ IsInit
    /\ result.config.use_sparse_attn
    /\ result.config.n_layer = 1
    /\ result.status = "NameError"
    /\ ~Constructed

(* =================== claims on the attention forward =================== *)
\* a forward call that ran the layers and returned
RanLayers == IsForward /\ result.status = "ok"

\* block a takes the grouped-query path
GroupedQuery(a) == a.use_mqa /\ ~a.use_sparse_attn

\* the key/value head of query head h (1-based) when n_head heads share
\* kv heads in groups of n_head / kv
GroupOf(h, n_head, kv) == (h - 1) \div (n_head \div kv)

\* C14: on the grouped-query path with kv_heads dividing n_head, the QKV
\* projection is n_embd + 2 * kv_heads * head_dim wide and query head h reads
\* its key and its value from the key/value head of its own group, so that
\* all kv_heads key heads and value heads are used, key and value from the
\* same head.
C14_GroupedHeads ==
    RanLayers =>
        \A i \in 1..Len(model.h) :
            LET a == model.h[i]
                kv == a.mqa_kv_n_head
                n_embd == model.config.n_embd
            IN  GroupedQuery(a) /\ kv >= 1 /\ a.n_head % kv = 0 =>
                    /\ a.c_attn_out = n_embd + 2 * kv * a.head_dim
                    /\ \A h \in 1..a.n_head :
                          LET g == GroupOf(h, a.n_head, kv)
                          IN  /\ result.layers[i].k_lo[h] = n_embd + g * a.head_dim
                              /\ result.layers[i].v_lo[h] =
                                    n_embd + kv * a.head_dim + g * a.head_dim

(* ======================== claims on the capacity ======================= *)
IsCrop == result.op = "crop"

\* the capacity is the same everywhere in the model: the rows of the
\* position table, and the side and content of each dense block's mask;
\* fused and sparse blocks hold no mask
CapacityConsistent ==
    Constructed =>
        /\ model.wpe_rows = model.config.block_size
        /\ \A i \in 1..Len(model.h) :
              LET a == model.h[i]
              IN  /\ a.active = "standard" =>
                        /\ a.has_bias
                        /\ a.bias_side = model.config.block_size
                        /\ Len(a.bias_rows) = model.config.block_size
                        /\ \A r \in 1..Len(a.bias_rows) : a.bias_rows[r] = r
                  /\ a.active # "standard" =>
                        ~a.has_bias /\ a.bias_rows = <<>>

\* a crop fails exactly when n exceeds the capacity it was called at, and a
\* crop that passes sets the capacity to n
CropOutcome ==
    IsCrop =>
        /\ (result.status # "ok") <=> (result.block_size > result.cap)
        /\ result.status = "ok" => model.config.block_size = result.block_size
        /\ result.status # "ok" => model.config.block_size = result.cap

\* a failed crop changes nothing, and no step raises a model's capacity
CropSteps ==
    [][/\ (result'.op = "crop" /\ result.op = "none" /\ result'.status # "ok")
            => model' = model
       /\ (Constructed /\ model'.kind = "GPT")
            => model'.config.block_size <= model.config.block_size]_vars

\* C15: after construction and after any crops, config.block_size equals
\* the rows of the position table, every dense block holds a lower-
\* triangular mask of that side and fused and sparse blocks hold none;
\* crop_block_size(n) with n above the capacity fails and changes nothing,
\* and the capacity never increases.
C15_Capacity == [](CapacityConsistent /\ CropOutcome) /\ CropSteps

\* a model with a dense block built at capacity 2 and cropped to 1
C15_Witness ==
    /\ Constructed
    /\ IsCrop
    /\ result.status = "ok"
    /\ result.cap = 2
    /\ result.block_size = 1
    /\ Len(model.h) = 1
    /\ model.h[1].active = "standard"
    /\ model.h[1].bias_rows = <<1>>
    /\ model.wpe_rows = 1

(* ==================== claims on the sparse path ======================== *)
\* C16: on the block-sparse path every forward call of an attention block
\* generates the sparse block index anew with the block-index generation
\* algorithm (one call of the generator per forward call of the block), the
\* attention of that call being restricted to the blocks of that index.
C16_IndexPerCall ==
    RanLayers =>
        \A i \in 1..Len(model.h) :
            model.h[i].use_sparse_attn =>
                result.layers[i].index_generator_calls = 1

\* C17: for every combination of flags exactly one positional mechanism
\* acts in a forward pass: with use_rope false the position embeddings are
\* added and no block applies the rotary rotation, with use_rope true the
\* position embeddings are not added and every block applies the rotary
\* rotation to its query and key.
C17_OnePositionalMechanism ==
    RanLayers =>
        /\ ~model.config.use_rope =>
              /\ result.pos_emb_added
              /\ \A i \in 1..Len(model.h) : ~result.layers[i].rotary_applied
        /\ model.config.use_rope =>
              /\ ~result.pos_emb_added
              /\ \A i \in 1..Len(model.h) : result.layers[i].rotary_applied

====
